---- MODULE Spec2Model ----
(***************************************************************************)
(* Order lifecycle of the multi-vendor marketplace (MulVendorEcommerce):   *)
(* orders, order items, status history, assignment history, vendor         *)
(* analytics and the cache the order model writes to.  Request handlers    *)
(* that read the order outside their transaction (update_status, assign)   *)
(* are modelled in the steps in which the database can interleave them.    *)
(* Money is counted in cents.  The checkout and the order views of the     *)
(* backend shop (src/backend) are modelled next to it, on tables of their  *)
(* own.                                                                    *)
(***************************************************************************)
EXTENDS Integers, Sequences, FiniteSets, TLC

VARIABLES
    order,               \* Order table: OrderIds -> row
    items,               \* OrderItem table: set of rows
    status_history,      \* OrderStatusHistory table, in insertion order
    assignment_history,  \* OrderAssignmentHistory table: set of rows
    analytics,           \* VendorOrderAnalytics table: Vendors -> row
    cache,               \* django cache: key -> entry
    req,                 \* requests in flight: ReqIds -> handler frame
    last,                \* the response of the request that finished last
    now,                 \* timezone.now(), a logical clock
    nreq,                \* number of requests that went on to write
    bk_product,          \* backend Product table: BackendProducts -> row
    bk_order,            \* backend Order table: set of committed rows
    bk_item,             \* backend OrderItem table: set of committed rows
    checkout,            \* backend checkouts in flight: CheckoutIds -> frame
    bk_last,             \* the response of the backend request that finished last
    ncheckout            \* number of backend requests started

backendVars == <<bk_product, bk_order, bk_item, checkout, bk_last, ncheckout>>

orderVars == <<order, items, status_history, assignment_history, analytics,
               cache, req, last, now, nreq>>

vars == <<order, items, status_history, assignment_history, analytics,
          cache, req, last, now, nreq, bk_product, bk_order, bk_item,
          checkout, bk_last, ncheckout>>

----------------------------------------------------------------------------
(* Bounds *)

MaxRequests == 2
MaxStatusRequests == 1
MaxTotalsRequests == 3
MaxInflight == 2
MaxItems == 2

ReqIds == 1..MaxInflight

MaxCheckouts == 3

CheckoutIds == 1..MaxInflight

----------------------------------------------------------------------------
(* The backend shop (src/backend): users, vendor profiles, products and    *)
(* the rows of its Order and OrderItem tables.                             *)

BackendUsers == {"root", "vendor1", "buyer1", "buyer2"}

\* User.role of the backend users.
User_role(u) ==
    CASE u = "root" -> "admin"
      [] u = "vendor1" -> "vendor"
      [] OTHER -> "buyer"

\* user.vendor_profile, for a user who has one.
vendor_profile(u) == IF u = "vendor1" THEN "vp1" ELSE "none"

BackendProducts == {"b1", "b2"}

\* Product.vendor.
BackendProductVendor(p) == IF p = "b1" THEN "vp1" ELSE "vp2"

\* The Product row every product starts with.
StartProduct == [stock |-> 2, sales_count |-> 0]

NoBackendOrder == [id |-> 0, buyer |-> "none", shipping_address |-> ""]

\* A checkout frame that runs no request: items is the validated item list,
\* idx the item the loop is at, obj the Product row the loop has read, order
\* the row Order.objects.create inserted, new_items the OrderItem rows
\* inserted and writes the Product rows saved, all uncommitted.
NoCheckout ==
    [pc |-> "idle", user |-> "none", items |-> <<>>, idx |-> 0,
     obj |-> StartProduct, order |-> NoBackendOrder, new_items |-> {},
     writes |-> [p \in {} |-> StartProduct]]

\* The backend tables and frames before any backend request.
InitBackend ==
    /\ bk_product = [p \in BackendProducts |-> StartProduct]
    /\ bk_order = {}
    /\ bk_item = {}
    /\ checkout = [c \in CheckoutIds |-> NoCheckout]
    /\ bk_last = [op |-> "none", user |-> "none", oid |-> 0,
                  result |-> "none", item |-> 0, data |-> {}]
    /\ ncheckout = 0

----------------------------------------------------------------------------
(* Order.Status *)

DRAFT == "DRAFT"
PENDING_PAYMENT == "PENDING_PAYMENT"
PAYMENT_RECEIVED == "PAYMENT_RECEIVED"
PROCESSING == "PROCESSING"
READY_FOR_SHIPMENT == "READY_FOR_SHIPMENT"
SHIPPED == "SHIPPED"
OUT_FOR_DELIVERY == "OUT_FOR_DELIVERY"
DELIVERED == "DELIVERED"
CANCELLED == "CANCELLED"
RETURN_REQUESTED == "RETURN_REQUESTED"
RETURN_APPROVED == "RETURN_APPROVED"
RETURN_RECEIVED == "RETURN_RECEIVED"
REFUNDED == "REFUNDED"
ON_HOLD == "ON_HOLD"
FAILED == "FAILED"

Status ==
    {DRAFT, PENDING_PAYMENT, PAYMENT_RECEIVED, PROCESSING, READY_FOR_SHIPMENT,
     SHIPPED, OUT_FOR_DELIVERY, DELIVERED, CANCELLED, RETURN_REQUESTED,
     RETURN_APPROVED, RETURN_RECEIVED, REFUNDED, ON_HOLD, FAILED}

----------------------------------------------------------------------------
(* Users, vendors, products: the rows of the Users and products apps the   *)
(* order handlers read.  They are not written by any order operation.      *)

NoUser == "none"
NoVendor == "none"
NoRole == "none"

Vendors == {"V1", "V2"}

UserIds == {"admin", "own1", "own2", "mgr1", "cs1", "staff1", "emp2", "cust1"}

\* A user holding two profile rows: CustomerProfile, Vendor and
\* VendorEmployee are each one-to-one with User and no check relates them.
\* dual1 is a customer who is also a manager of vendor V1.
DualUsers == {"dual1"}

is_superuser(u) == u = "admin"

HasCustomerProfile(u) == u \in {"cust1", "dual1"}

HasVendor(u) == u \in {"own1", "own2"}

UserVendor(u) ==
    CASE u = "own1" -> "V1"
      [] u = "own2" -> "V2"
      [] OTHER -> NoVendor

HasVendorEmployee(u) == u \in {"mgr1", "cs1", "staff1", "emp2", "dual1"}

EmployeeVendor(u) ==
    CASE u \in {"mgr1", "cs1", "staff1", "dual1"} -> "V1"
      [] u = "emp2" -> "V2"
      [] OTHER -> NoVendor

MANAGER == "MANAGER"
STAFF == "STAFF"
DELIVERY == "DELIVERY"
CUSTOMER_SERVICE == "CUSTOMER_SERVICE"

EmployeeRole(u) ==
    CASE u \in {"mgr1", "emp2", "dual1"} -> MANAGER
      [] u = "cs1" -> CUSTOMER_SERVICE
      [] u = "staff1" -> STAFF
      [] OTHER -> NoRole

EmployeeIsActive(u) == HasVendorEmployee(u)

Products == {"p1", "p2"}

ProductVendor(p) == IF p = "p1" THEN "V1" ELSE "V2"

----------------------------------------------------------------------------
(* Rows *)

OrderIds == {"o1", "o2"}

\* The users with role CUSTOMER: cust2 owns an address and sends no request.
Customers == {"cust1", "cust2"}

\* The Address rows and their users.
NoAddress == "none"
Addresses == {"a1", "a2"}

AddressUser(a) == IF a = "a1" THEN "cust1" ELSE "cust2"

NoTime == 0

\* A slot of the Order table that holds no row.
NoOrder ==
    [exists |-> FALSE, customer |-> NoUser, vendor |-> NoVendor,
     status |-> DRAFT, subtotal |-> 0, tax_amount |-> 0, shipping_cost |-> 0,
     discount_amount |-> 0, total |-> 0, assigned_to |-> NoUser,
     last_updated_by |-> NoUser, status_changed_at |-> NoTime,
     vendor_notes |-> "", admin_notes |-> "",
     shipping_address |-> NoAddress, billing_address |-> NoAddress]

\* An Order row with the model's field defaults.
NewOrder(c, v, s) ==
    [NoOrder EXCEPT !.exists = TRUE, !.customer = c, !.vendor = v, !.status = s]

NoAnalytics ==
    [total_orders |-> 0, total_revenue |-> 0, average_order_value |-> 0,
     total_items_sold |-> 0]

RECURSIVE SumOver(_, _)
\* Sum of f[x] over the finite set S.
SumOver(S, f) ==
    IF S = {} THEN 0
    ELSE LET x == CHOOSE y \in S : TRUE
         IN  f[x] + SumOver(S \ {x}, f)

MaxOf(S) == IF S = {} THEN 0 ELSE CHOOSE x \in S : \A y \in S : y <= x

ItemsOf(o) == {i \in items : i.order = o}

ActiveRows(o) == {a \in assignment_history : a.order = o /\ a.active}

HistoryOf(o) == SelectSeq(status_history, LAMBDA h : h.order = o)

----------------------------------------------------------------------------
(* Role filters and permissions *)

\* VendorEmployee carries no capability attribute in Users/models.py; the
\* capabilities are the OrderPermission row of the employee's sub-role.
can_assign_orders(u) == EmployeeRole(u) = MANAGER

can_view_all_orders(u) == EmployeeRole(u) \in {MANAGER, CUSTOMER_SERVICE}

can_edit_order_items(u) == EmployeeRole(u) = MANAGER

\* OrderPermission.can_view_financials of the row of the employee's role: the
\* Manager row is configured with it, the other rows keep the field default.
can_view_financials(u) == HasVendorEmployee(u) /\ EmployeeRole(u) = MANAGER

\* OrderViewSet._apply_role_filters: is order row ord in the user's queryset.
_apply_role_filters(ord, u) ==
    IF is_superuser(u) THEN TRUE
    ELSE IF HasCustomerProfile(u) THEN ord.customer = u
    ELSE IF HasVendor(u) THEN ord.vendor = UserVendor(u)
    ELSE IF HasVendorEmployee(u) THEN
        /\ ord.vendor = EmployeeVendor(u)
        /\ \/ can_view_all_orders(u)
           \/ ord.assigned_to = u
           \/ ord.assigned_to = NoUser
    ELSE FALSE

IsSuperAdmin(u) == is_superuser(u)

IsVendorOwner(u, ord) == HasVendor(u) /\ ord.vendor = UserVendor(u)

IsVendorEmployee(u) == HasVendorEmployee(u) /\ EmployeeIsActive(u)

\* OrderViewSet.get_permissions, as checked on the object get_object returns.
get_permissions(action, u, ord) ==
    IF action \in {"update", "partial_update", "destroy"}
    THEN IsVendorOwner(u, ord) \/ IsSuperAdmin(u)
    ELSE IF action \in {"assign", "update_status"}
    THEN IsVendorOwner(u, ord) \/ IsVendorEmployee(u) \/ IsSuperAdmin(u)
    ELSE TRUE

----------------------------------------------------------------------------
(* Status transitions *)

OwnerEdges(s) ==
    CASE s = PAYMENT_RECEIVED -> {PROCESSING, ON_HOLD}
      [] s = PROCESSING -> {READY_FOR_SHIPMENT, ON_HOLD}
      [] s = READY_FOR_SHIPMENT -> {SHIPPED}
      [] s = SHIPPED -> {OUT_FOR_DELIVERY}
      [] s = OUT_FOR_DELIVERY -> {DELIVERED}
      [] s = DELIVERED -> {RETURN_REQUESTED}
      [] s = RETURN_REQUESTED -> {RETURN_APPROVED, CANCELLED}
      [] OTHER -> {}

EmployeeEdges(s) ==
    CASE s = PAYMENT_RECEIVED -> {PROCESSING}
      [] s = PROCESSING -> {READY_FOR_SHIPMENT}
      [] s = READY_FOR_SHIPMENT -> {SHIPPED}
      [] OTHER -> {}

AdminEdges(s) ==
    CASE s \in {CANCELLED, REFUNDED, FAILED} -> {}
      [] s = DELIVERED -> {RETURN_REQUESTED}
      [] OTHER -> Status

\* Order.get_status_actions(user): the statuses the user may move ord to.
get_status_actions(ord, u) ==
    IF is_superuser(u) THEN AdminEdges(ord.status)
    ELSE IF HasVendor(u) THEN
        IF ord.vendor = UserVendor(u) THEN OwnerEdges(ord.status) ELSE {}
    ELSE IF HasVendorEmployee(u) THEN
        IF /\ ord.vendor = EmployeeVendor(u)
           /\ EmployeeRole(u) \in {MANAGER, CUSTOMER_SERVICE}
        THEN EmployeeEdges(ord.status) ELSE {}
    ELSE {}

\* The actions of a superuser, whoever asks.
get_available_status_actions_of_admin(ord, u) == AdminEdges(ord.status)

\* OrderSerializer.get_available_status_actions for request user u
\* (NoUser: the request is not authenticated).
get_available_status_actions(ord, u) ==
    IF u # NoUser THEN get_status_actions(ord, u) ELSE {}

----------------------------------------------------------------------------
(* Order.save and the cache *)

CacheKeys ==
    ({"order"} \X OrderIds) \cup ({"vendor_orders"} \X Vendors)
        \cup ({"customer_orders", "employee_orders"} \X (UserIds \cup Customers))

\* cache.set(key, value): the cache is the function from the keys it holds
\* to their values.
cache_set(c, k, v) == [x \in DOMAIN c \cup {k} |-> IF x = k THEN v ELSE c[x]]

\* Order._calculate_totals on the in-memory order ord, its being the rows
\* of self.items.all().
_calculate_totals(ord, its) ==
    IF ord.status = DRAFT
    THEN LET sub == SumOver(its, [i \in its |-> i.price * i.quantity])
         IN  [ord EXCEPT !.subtotal = sub,
                         !.total = sub + ord.tax_amount + ord.shipping_cost
                                       - ord.discount_amount]
    ELSE ord

\* 'status' in self.get_dirty_fields(): the status differs from the loaded one.
status_is_dirty(ord, loaded_status) == ord.status # loaded_status

\* Order.save: the row written for the in-memory order ord.
save(ord, loaded_status, its) ==
    _calculate_totals(
        IF status_is_dirty(ord, loaded_status)
        THEN [ord EXCEPT !.status_changed_at = now] ELSE ord,
        its)

\* Order._update_caches: every key is set to the saved order.
_update_caches(c, o, ord) ==
    LET keys == {k \in CacheKeys :
                    \/ k = <<"order", o>>
                    \/ k = <<"vendor_orders", ord.vendor>>
                    \/ k = <<"customer_orders", ord.customer>>
                    \/ (ord.assigned_to # NoUser
                           /\ k = <<"employee_orders", ord.assigned_to>>)}
    IN  [k \in DOMAIN c \cup keys |-> IF k \in keys THEN ord ELSE c[k]]

\* cache.delete_pattern('order_<id>_*') and cache.delete_pattern('orders_*'):
\* the first pattern matches the detail keys order_<id>_<user> of retrieve,
\* the second the queryset keys of get_queryset, which the model does not
\* hold.  Neither matches a key written by _update_caches ('order_<id>' has
\* no trailing part, the list keys start with vendor_, customer_,
\* employee_), nor order_summary_*, recent_orders_* or vendor_dashboard_*.
delete_pattern(c, o) ==
    [k \in {x \in DOMAIN c : ~(Len(x) = 3 /\ x[1] = "order" /\ x[2] = o)}
        |-> c[k]]

----------------------------------------------------------------------------
(* Requests *)

Idle ==
    [pc |-> "idle", user |-> NoUser, oid |-> "o1", arg |-> "", obj |-> NoOrder,
     locked |-> {}, at |-> NoTime, pending |-> NoOrder]

NoData ==
    [status |-> "", subtotal |-> 0, tax_amount |-> 0, shipping_cost |-> 0,
     discount_amount |-> 0, total |-> 0, vendor_notes |-> "",
     admin_notes |-> "", available_status_actions |-> {}]

\* OrderSerializer(order).data for request user u: the fields the model
\* reads.  Meta.fields is the same list for every user.
OrderData(ord, u) ==
    [status |-> ord.status, subtotal |-> ord.subtotal,
     tax_amount |-> ord.tax_amount, shipping_cost |-> ord.shipping_cost,
     discount_amount |-> ord.discount_amount, total |-> ord.total,
     vendor_notes |-> ord.vendor_notes, admin_notes |-> ord.admin_notes,
     available_status_actions |-> get_available_status_actions(ord, u)]

NoResponse ==
    [op |-> "none", user |-> NoUser, oid |-> "o1", vendor |-> NoVendor,
     from |-> "", result |-> "none", data |-> NoData]

\* The response of a finished request: from is the order status the handler
\* read, result the kind of the response, data the body of a 200; vendor is
\* the row an analytics refresh ran on.
Response(op, u, o, arg, from, result, data) ==
    [op |-> op, user |-> u, oid |-> o,
     vendor |-> IF op = "update_analytics" THEN arg ELSE NoVendor,
     from |-> from, result |-> result, data |-> data]

\* A handler frame is free and no lower one is: a new request runs in r.
FreeFrame(r) ==
    /\ req[r].pc = "idle"
    /\ \A q \in ReqIds : q < r => req[q].pc # "idle"

\* get_object: 404 outside the role-filtered queryset, 403 on the object
\* permissions of the action.
get_object_unfiltered(action, u, o) ==
    IF ~order[o].exists THEN "NotFound" ELSE "OK"

get_object(action, u, o) ==
    IF ~order[o].exists \/ ~_apply_role_filters(order[o], u) THEN "NotFound"
    ELSE IF ~get_permissions(action, u, order[o]) THEN "PermissionDenied"
    ELSE "OK"

StatusInputs == Status \cup {"", "BOGUS"}

\* update_status without the test against get_status_actions.
update_status_check_unchecked(u, o, new_status) ==
    IF get_object("update_status", u, o) # "OK"
    THEN get_object("update_status", u, o)
    ELSE IF new_status = "" THEN "ValidationError"
    ELSE IF new_status \notin Status THEN "ValidationError"
    ELSE "OK"

\* OrderViewSet.update_status up to the transaction: the response kind, or
\* OK when the handler goes on to write.
update_status_check(u, o, new_status) ==
    IF get_object("update_status", u, o) # "OK"
    THEN get_object("update_status", u, o)
    ELSE IF new_status = "" THEN "ValidationError"
    ELSE IF new_status \notin Status THEN "ValidationError"
    ELSE IF new_status \notin get_status_actions(order[o], u)
    THEN "PermissionDenied"
    ELSE "OK"

\* update_status: get_object, validation and the transition check.
UpdateStatusBegin(r, u, o, new_status) ==
    /\ FreeFrame(r)
    /\ IF update_status_check(u, o, new_status) = "OK"
       THEN /\ req' = [req EXCEPT ![r] =
                  [Idle EXCEPT !.pc = "update_status", !.user = u, !.oid = o,
                               !.arg = new_status, !.obj = order[o]]]
            /\ nreq' = nreq + 1
            /\ UNCHANGED last
       ELSE /\ last' = Response("update_status", u, o, new_status,
                                order[o].status,
                                update_status_check(u, o, new_status), NoData)
            /\ UNCHANGED <<req, nreq>>
    /\ UNCHANGED <<order, items, status_history, assignment_history,
                   analytics, cache, now>>
    /\ UNCHANGED backendVars

\* A history row written after the status was assigned.
OrderStatusHistory_create_late(ord, new_status, u) ==
    [order |-> ord.id, old_status |-> new_status, new_status |-> new_status,
     changed_by |-> u, created_at |-> now]

\* OrderStatusHistory.objects.create(...) of update_status, ord being the
\* order as the handler holds it.
OrderStatusHistory_create(ord, new_status, u) ==
    [order |-> ord.id, old_status |-> ord.status, new_status |-> new_status,
     changed_by |-> u, created_at |-> now]

\* update_status: the atomic block (history row, order.save, cache deletes)
\* and its commit, as one step.  When the order row has been deleted since
\* get_object, the INSERT of the history row fails on its foreign key and
\* the transaction is rolled back.
UpdateStatusCommit(r) ==
    /\ req[r].pc = "update_status"
    /\ LET f == req[r]
           o == f.oid
           row == OrderStatusHistory_create([id |-> o, status |-> f.obj.status],
                                            f.arg, f.user)
           obj == [f.obj EXCEPT !.status = f.arg, !.status_changed_at = now,
                                !.last_updated_by = f.user]
           saved == save(obj, f.obj.status, ItemsOf(o))
       IN  IF order[o].exists
           THEN /\ status_history' = Append(status_history, row)
                /\ order' = [order EXCEPT ![o] = saved]
                /\ cache' = delete_pattern(_update_caches(cache, o, saved), o)
                /\ last' = Response("update_status", f.user, o, f.arg,
                                    f.obj.status, "OK", OrderData(saved, f.user))
                /\ now' = now + 1
           ELSE /\ last' = Response("update_status", f.user, o, f.arg,
                                    f.obj.status, "ServerError", NoData)
                /\ UNCHANGED <<status_history, order, cache, now>>
    /\ req' = [req EXCEPT ![r] = Idle]
    /\ UNCHANGED <<items, assignment_history, analytics, nreq>>
    /\ UNCHANGED backendVars

AssignInputs == UserIds \cup {"", "ghost"}

\* The permission test without the can_assign_orders flag of the employee.
may_assign_any_employee(u, ord) ==
    \/ is_superuser(u)
    \/ (HasVendor(u) /\ ord.vendor = UserVendor(u))
    \/ (HasVendorEmployee(u) /\ ord.vendor = EmployeeVendor(u))

\* The permission test of OrderViewSet.assign.
may_assign(u, ord) ==
    \/ is_superuser(u)
    \/ (HasVendor(u) /\ ord.vendor = UserVendor(u))
    \/ (HasVendorEmployee(u) /\ ord.vendor = EmployeeVendor(u)
            /\ can_assign_orders(u))

\* OrderViewSet.assign up to the transaction.
assign_check(u, o, assigned_to_id) ==
    IF get_object("assign", u, o) # "OK" THEN get_object("assign", u, o)
    ELSE IF assigned_to_id = "" THEN "ValidationError"
    ELSE IF assigned_to_id \notin UserIds THEN "ValidationError"
    ELSE IF ~may_assign(u, order[o]) THEN "PermissionDenied"
    ELSE "OK"

\* assign: get_object, the lookup of the assignee and the permission test.
AssignBegin(r, u, o, assigned_to_id) ==
    /\ FreeFrame(r)
    /\ IF assign_check(u, o, assigned_to_id) = "OK"
       THEN /\ req' = [req EXCEPT ![r] =
                  [Idle EXCEPT !.pc = "assign", !.user = u, !.oid = o,
                               !.arg = assigned_to_id, !.obj = order[o]]]
            /\ nreq' = nreq + 1
            /\ UNCHANGED last
       ELSE /\ last' = Response("assign", u, o, assigned_to_id,
                                order[o].status,
                                assign_check(u, o, assigned_to_id), NoData)
            /\ UNCHANGED <<req, nreq>>
    /\ UNCHANGED <<order, items, status_history, assignment_history,
                   analytics, cache, now>>
    /\ UNCHANGED backendVars

\* Rows of order o that another open transaction has updated and locked.
LockedByOthers(r, o) ==
    UNION {req[q].locked : q \in {x \in ReqIds : x # r /\ req[x].oid = o}}

\* assign: the UPDATE that ends the current assignment.  It runs on the
\* committed rows (READ COMMITTED) and waits for a row another transaction
\* has locked.
AssignEndCurrent(r) ==
    /\ req[r].pc = "assign"
    /\ {a.id : a \in ActiveRows(req[r].oid)} \cap LockedByOthers(r, req[r].oid) = {}
    /\ req' = [req EXCEPT ![r].pc = "assign_create",
                          ![r].locked = {a.id : a \in ActiveRows(req[r].oid)},
                          ![r].at = now]
    /\ UNCHANGED <<order, items, status_history, assignment_history,
                   analytics, cache, last, now, nreq>>
    /\ UNCHANGED backendVars

\* assign: the new row, order.save, the cache deletes and the commit.  When
\* the order row has been deleted since get_object, the INSERT of the
\* assignment row fails on its foreign key and the transaction is rolled
\* back.
AssignCommit(r) ==
    /\ req[r].pc = "assign_create"
    /\ LET f == req[r]
           o == f.oid
           ended == {IF a.id \in f.locked
                     THEN [a EXCEPT !.active = FALSE, !.ended_at = f.at]
                     ELSE a : a \in assignment_history}
           row == [id |-> MaxOf({a.id : a \in assignment_history}) + 1,
                   order |-> o, assigned_to |-> f.arg, assigned_by |-> f.user,
                   created_at |-> now, ended_at |-> NoTime, active |-> TRUE]
           obj == [f.obj EXCEPT !.assigned_to = f.arg,
                                !.last_updated_by = f.user]
           saved == save(obj, f.obj.status, ItemsOf(o))
       IN  IF order[o].exists
           THEN /\ assignment_history' = ended \cup {row}
                /\ order' = [order EXCEPT ![o] = saved]
                /\ cache' = delete_pattern(_update_caches(cache, o, saved), o)
                /\ last' = Response("assign", f.user, o, f.arg, f.obj.status,
                                    "OK", OrderData(saved, f.user))
                /\ now' = now + 1
           ELSE /\ last' = Response("assign", f.user, o, f.arg, f.obj.status,
                                    "ServerError", NoData)
                /\ UNCHANGED <<assignment_history, order, cache, now>>
    /\ req' = [req EXCEPT ![r] = Idle]
    /\ UNCHANGED <<items, status_history, analytics, nreq>>
    /\ UNCHANGED backendVars

----------------------------------------------------------------------------
(* Order create and update *)

ShippingInputs == {0, 300}
NoteInputs == {"", "internal"}
DiscountInputs == {0, 100}
PriceInputs == {550, 1000}
QuantityInputs == {1, 2}

\* The item payloads a request may carry.
ItemInputs ==
    [product : Products, price : PriceInputs, quantity : QuantityInputs]

FreeOrderIds == {o \in OrderIds : ~order[o].exists}

\* OrderItem(order=order, **item_data): tax, discount and total at their
\* field defaults.
NewItem(id, o, d) ==
    [id |-> id, order |-> o, product |-> d.product, price |-> d.price,
     quantity |-> d.quantity, tax_amount |-> 0, discount_amount |-> 0,
     total |-> 0]

\* OrderItem.save: the row written.
item_save(i) ==
    [i EXCEPT !.total = (i.price * i.quantity) + i.tax_amount - i.discount_amount]

\* The nested item lists a create request may carry.
NestedInputs ==
    {<<>>,
     <<[product |-> "p1", price |-> 1000, quantity |-> 2]>>,
     <<[product |-> "p1", price |-> 1000, quantity |-> 2],
       [product |-> "p1", price |-> 550, quantity |-> 1]>>,
     <<[product |-> "p2", price |-> 550, quantity |-> 1]>>}

\* OrderSerializer.validate, the address part: each address sent and not
\* null must belong to customer c.
validate_addresses(c, fields, shipping_address, billing_address) ==
    /\ ("shipping_address" \in fields /\ shipping_address # NoAddress)
          => AddressUser(shipping_address) = c
    /\ ("billing_address" \in fields /\ billing_address # NoAddress)
          => AddressUser(billing_address) = c

\* POST /orders/ with customer_id cid, shipping_address_id sid and
\* billing_address_id bid: is_valid, perform_create and OrderSerializer.create
\* (Order.objects.create, bulk_create of the nested items, _calculate_totals,
\* save).
OrderCreateWith(u, v, shipping, discount, nested, cid, sid, bid) ==
    /\ FreeOrderIds # {}
    /\ MaxOf({i.id : i \in items}) + Len(nested) <= MaxItems
    /\ LET o == CHOOSE x \in FreeOrderIds : TRUE
           result ==
               IF cid \notin Customers THEN "ValidationError"
               ELSE IF HasVendorEmployee(u) /\ ~can_edit_order_items(u)
                          /\ nested # <<>>
               THEN "ValidationError"
               ELSE IF ~validate_addresses(cid,
                           {"shipping_address", "billing_address"},
                           sid, bid)
               THEN "ValidationError"
               ELSE IF ~HasCustomerProfile(u) THEN "PermissionDenied"
               ELSE IF ~validate_addresses(u,
                           {"shipping_address", "billing_address"},
                           sid, bid)
               THEN "ValidationError"
               ELSE "OK"
           created == [NewOrder(u, v, PENDING_PAYMENT) EXCEPT
                           !.shipping_cost = shipping,
                           !.discount_amount = discount,
                           !.shipping_address = sid,
                           !.billing_address = bid,
                           !.last_updated_by = u]
           first == save(created, "", {})
           base == MaxOf({i.id : i \in items})
           rows == {NewItem(base + k, o, nested[k]) : k \in DOMAIN nested}
           saved == save(first, first.status, rows)
       IN  IF result = "OK"
           THEN /\ order' = [order EXCEPT ![o] = saved]
                /\ items' = items \cup rows
                /\ cache' = _update_caches(cache, o, saved)
                /\ last' = Response("create", u, o, v, "", "OK",
                                    OrderData(saved, u))
                /\ now' = now + 1
                /\ nreq' = nreq + 1
           ELSE /\ last' = Response("create", u, o, v, "", result, NoData)
                /\ UNCHANGED <<order, items, cache, now, nreq>>
    /\ UNCHANGED <<status_history, assignment_history, analytics, req>>
    /\ UNCHANGED backendVars

\* POST /orders/ without addresses, customer_id naming the customer cust1.
OrderCreate(u, v, shipping, discount, nested) ==
    OrderCreateWith(u, v, shipping, discount, nested, "cust1", NoAddress,
                    NoAddress)

\* The bodies a PATCH /orders/<id>/ may carry: fields names the fields sent;
\* assigned_to is the user of assigned_to_id, NoUser for null.
UpdateInputs ==
    {[fields |-> {"status"}, status |-> s, shipping_cost |-> 0,
      discount_amount |-> 0, vendor_notes |-> "", admin_notes |-> "",
      customer |-> NoUser, shipping_address |-> NoAddress,
      billing_address |-> NoAddress,
           assigned_to |-> NoUser]
        : s \in Status}
    \cup {[fields |-> {"shipping_cost", "discount_amount"}, status |-> "",
           shipping_cost |-> c, discount_amount |-> d, vendor_notes |-> "",
           admin_notes |-> "", customer |-> NoUser,
           shipping_address |-> NoAddress, billing_address |-> NoAddress,
           assigned_to |-> NoUser]
            : c \in ShippingInputs, d \in DiscountInputs}
    \cup {[fields |-> {"vendor_notes", "admin_notes"}, status |-> "",
           shipping_cost |-> 0, discount_amount |-> 0, vendor_notes |-> n,
           admin_notes |-> m, customer |-> NoUser,
           shipping_address |-> NoAddress, billing_address |-> NoAddress,
           assigned_to |-> NoUser]
            : n \in NoteInputs, m \in NoteInputs}
    \cup {[fields |-> F, status |-> "", shipping_cost |-> 0,
           discount_amount |-> 0, vendor_notes |-> "", admin_notes |-> "",
           customer |-> IF "customer" \in F THEN c ELSE NoUser,
           shipping_address |-> IF "shipping_address" \in F THEN a
                                ELSE NoAddress,
           billing_address |-> IF "billing_address" \in F THEN b
                               ELSE NoAddress,
           assigned_to |-> NoUser]
            : F \in (SUBSET {"customer", "shipping_address",
                             "billing_address"}) \ {{}},
              c \in Customers \cup {"ghost"},
              a \in Addresses \cup {NoAddress},
              b \in Addresses \cup {NoAddress}}
    \cup {[fields |-> {"assigned_to"}, status |-> "", shipping_cost |-> 0,
           discount_amount |-> 0, vendor_notes |-> "", admin_notes |-> "",
           customer |-> NoUser, shipping_address |-> NoAddress,
           billing_address |-> NoAddress, assigned_to |-> a]
            : a \in {"mgr1", "emp2", "cust1", NoUser}}

\* PATCH /orders/<o>/: get_object, perform_update and OrderSerializer.update.
OrderUpdate(u, o, data) ==
    /\ LET ord == order[o]
           new_status == IF "status" \in data.fields THEN data.status ELSE ""
           changes == new_status # "" /\ new_status # ord.status
           result ==
               IF get_object("partial_update", u, o) # "OK"
               THEN get_object("partial_update", u, o)
               ELSE IF "customer" \in data.fields
                          /\ data.customer \notin Customers
               THEN "ValidationError"
               ELSE IF /\ "assigned_to" \in data.fields
                       /\ data.assigned_to # NoUser
                       /\ ~HasVendorEmployee(data.assigned_to)
               THEN "ValidationError"
               ELSE IF ~validate_addresses(
                           IF "customer" \in data.fields THEN data.customer
                           ELSE ord.customer,
                           data.fields, data.shipping_address,
                           data.billing_address)
               THEN "ValidationError"
               ELSE IF /\ HasVendor(u) \/ HasVendorEmployee(u)
                       /\ data.fields \cap {"shipping_address",
                                             "billing_address"} # {}
               THEN "PermissionDenied"
               ELSE IF changes /\ new_status \notin get_status_actions(ord, u)
               THEN "ValidationError"
               ELSE "OK"
           a == IF new_status # "" THEN [ord EXCEPT !.status = new_status] ELSE ord
           b == IF changes THEN [a EXCEPT !.status_changed_at = now] ELSE a
           c == IF "shipping_cost" \in data.fields
                THEN [b EXCEPT !.shipping_cost = data.shipping_cost] ELSE b
           d == IF "discount_amount" \in data.fields
                THEN [c EXCEPT !.discount_amount = data.discount_amount] ELSE c
           e == IF "vendor_notes" \in data.fields
                THEN [d EXCEPT !.vendor_notes = data.vendor_notes] ELSE d
           g == IF "admin_notes" \in data.fields
                THEN [e EXCEPT !.admin_notes = data.admin_notes] ELSE e
           h == IF "customer" \in data.fields
                THEN [g EXCEPT !.customer = data.customer] ELSE g
           i == IF "shipping_address" \in data.fields
                THEN [h EXCEPT !.shipping_address = data.shipping_address]
                ELSE h
           j == IF "billing_address" \in data.fields
                THEN [i EXCEPT !.billing_address = data.billing_address]
                ELSE i
           k == IF "assigned_to" \in data.fields
                THEN [j EXCEPT !.assigned_to = data.assigned_to] ELSE j
           saved == save([k EXCEPT !.last_updated_by = u], ord.status, ItemsOf(o))
       IN  IF result = "OK"
           THEN /\ order' = [order EXCEPT ![o] = saved]
                /\ cache' = _update_caches(cache, o, saved)
                /\ last' = Response("partial_update", u, o, new_status,
                                    ord.status, "OK", OrderData(saved, u))
                /\ now' = now + 1
                /\ nreq' = nreq + 1
           ELSE /\ last' = Response("partial_update", u, o, new_status,
                                    ord.status, result, NoData)
                /\ UNCHANGED <<order, cache, now>>
                /\ UNCHANGED nreq
    /\ UNCHANGED <<items, status_history, assignment_history, analytics, req>>
    /\ UNCHANGED backendVars

\* DELETE /orders/<o>/: get_object and instance.delete(), which cascades to
\* the items, the status history and the assignment history of the order; it
\* waits for the rows an open transaction has locked.
OrderDestroy(u, o) ==
    /\ LockedByOthers(0, o) = {}
    /\ LET result == get_object("destroy", u, o)
       IN  IF result = "OK"
           THEN /\ order' = [order EXCEPT ![o] = NoOrder]
                /\ items' = items \ ItemsOf(o)
                /\ status_history' =
                       SelectSeq(status_history, LAMBDA h : h.order # o)
                /\ assignment_history' =
                       {a \in assignment_history : a.order # o}
                /\ last' = Response("destroy", u, o, "", order[o].status,
                                    "OK", NoData)
                /\ now' = now + 1
                /\ nreq' = nreq + 1
           ELSE /\ last' = Response("destroy", u, o, "", order[o].status,
                                    result, NoData)
                /\ UNCHANGED <<order, items, status_history,
                               assignment_history, now, nreq>>
    /\ UNCHANGED <<analytics, cache, req>>
    /\ UNCHANGED backendVars

----------------------------------------------------------------------------
(* Order items *)

\* OrderItemViewSet.get_queryset: is item row i in the user's queryset.
item_queryset(i, u) ==
    IF is_superuser(u) THEN TRUE
    ELSE IF HasCustomerProfile(u) THEN order[i.order].customer = u
    ELSE IF HasVendor(u) THEN order[i.order].vendor = UserVendor(u)
    ELSE IF HasVendorEmployee(u) THEN order[i.order].vendor = EmployeeVendor(u)
    ELSE FALSE

\* OrderItemViewSet.get_permissions on an item: IsVendorOwner compares the
\* object's vendor attribute, which an OrderItem does not have.
item_permissions(action, u) ==
    IF action \in {"update", "partial_update", "destroy"}
    THEN IsSuperAdmin(u) ELSE TRUE

\* OrderItemSerializer.validate for order row ord (the instance's order).
item_validate(d, ord, u) ==
    IF d.quantity <= 0 THEN "ValidationError"
    ELSE IF ProductVendor(d.product) # ord.vendor THEN "ValidationError"
    ELSE IF HasVendorEmployee(u) /\ ~can_edit_order_items(u) THEN "ValidationError"
    ELSE "OK"

\* POST /order-items/: 'order' is a read-only field of the serializer, so
\* perform_create finds no validated_data['order'] and writes nothing.
OrderItemCreate(u, o, d) ==
    /\ order[o].exists
    /\ UNCHANGED nreq
    /\ last' = Response("item_create", u, o, d.product, order[o].status,
                        IF HasVendorEmployee(u) /\ ~can_edit_order_items(u)
                        THEN "ValidationError" ELSE "ServerError", NoData)
    /\ UNCHANGED <<order, items, status_history, assignment_history,
                   analytics, cache, req, now>>
    /\ UNCHANGED backendVars

\* PUT /order-items/<id>/: validate and OrderItem.save.
OrderItemUpdate(u, id, d) ==
    /\ \E i \in items : i.id = id
    /\ LET i == CHOOSE x \in items : x.id = id
           ord == order[i.order]
           result ==
               IF ~item_queryset(i, u) THEN "NotFound"
               ELSE IF ~item_permissions("update", u) THEN "PermissionDenied"
               ELSE item_validate(d, ord, u)
           row == item_save([i EXCEPT !.product = d.product, !.price = d.price,
                                      !.quantity = d.quantity])
       IN  /\ items' = IF result = "OK" THEN (items \ {i}) \cup {row} ELSE items
           /\ nreq' = IF result = "OK" THEN nreq + 1 ELSE nreq
           /\ last' = Response("item_update", u, i.order, d.product,
                               ord.status, result, NoData)
    /\ UNCHANGED <<order, status_history, assignment_history, analytics,
                   cache, req, now>>
    /\ UNCHANGED backendVars

\* DELETE /order-items/<id>/.
OrderItemDestroy(u, id) ==
    /\ \E i \in items : i.id = id
    /\ LET i == CHOOSE x \in items : x.id = id
           result ==
               IF ~item_queryset(i, u) THEN "NotFound"
               ELSE IF ~item_permissions("destroy", u) THEN "PermissionDenied"
               ELSE "OK"
       IN  /\ items' = IF result = "OK" THEN items \ {i} ELSE items
           /\ nreq' = IF result = "OK" THEN nreq + 1 ELSE nreq
           /\ last' = Response("item_destroy", u, i.order, "",
                               order[i.order].status, result, NoData)
    /\ UNCHANGED <<order, status_history, assignment_history, analytics,
                   cache, req, now>>
    /\ UNCHANGED backendVars

----------------------------------------------------------------------------
(* Vendor analytics *)

\* VendorOrderAnalytics.update_analytics: the method ends after it builds the
\* queryset of the vendor's delivered, refunded and cancelled orders; the
\* statements that store the aggregates follow the return of __str__.
update_analytics(row, v) == row

UpdateAnalytics(v) ==
    /\ UNCHANGED nreq
    /\ analytics' = [analytics EXCEPT ![v] = update_analytics(analytics[v], v)]
    /\ last' = Response("update_analytics", NoUser, "o1", v, "", "OK", NoData)
    /\ UNCHANGED <<order, items, status_history, assignment_history, cache,
                   req, now>>
    /\ UNCHANGED backendVars

----------------------------------------------------------------------------
(* Cached reads *)

\* The orders of the user's queryset: get_queryset with _apply_role_filters.
\* The queryset object get_queryset puts in the cache under orders_<user>_*
\* is filtered or ordered again before every use, which reads the rows anew,
\* so the model keeps no such key.
get_queryset(u) ==
    {o \in OrderIds : order[o].exists /\ _apply_role_filters(order[o], u)}

\* GET /orders/<o>/: the cached body when the key order_<o>_<user> is set,
\* else get_object, the serializer and cache.set.
Retrieve(u, o) ==
    /\ LET k == <<"order", o, u>>
           result == get_object("retrieve", u, o)
       IN  IF k \in DOMAIN cache
           THEN /\ last' = Response("retrieve", u, o, "", "", "OK", cache[k])
                /\ UNCHANGED cache
           ELSE IF result # "OK"
           THEN /\ last' = Response("retrieve", u, o, "", "", result, NoData)
                /\ UNCHANGED cache
           ELSE /\ cache' = cache_set(cache, k, OrderData(order[o], u))
                /\ last' = Response("retrieve", u, o, "", order[o].status,
                                    "OK", OrderData(order[o], u))
    /\ UNCHANGED <<order, items, status_history, assignment_history,
                   analytics, req, now, nreq>>
    /\ UNCHANGED backendVars

\* The body of GET /orders/summary/ for the orders S: the count, the revenue
\* and the count per status.
SummaryData(S) ==
    [total_orders |-> Cardinality(S),
     total_revenue |-> SumOver(S, [o \in S |-> order[o].total]),
     status_counts |->
        {<<s, Cardinality({o \in S : order[o].status = s})>>
            : s \in {order[o].status : o \in S}}]

\* GET /orders/summary/: the cached body when order_summary_<user>_* is set,
\* else the aggregates over the queryset and cache.set.
Summary(u) ==
    /\ LET k == <<"order_summary", u>>
       IN  IF k \in DOMAIN cache
           THEN /\ last' = Response("summary", u, "o1", "", "", "OK", cache[k])
                /\ UNCHANGED cache
           ELSE /\ cache' = cache_set(cache, k, SummaryData(get_queryset(u)))
                /\ last' = Response("summary", u, "o1", "", "", "OK",
                                    SummaryData(get_queryset(u)))
    /\ UNCHANGED <<order, items, status_history, assignment_history,
                   analytics, req, now, nreq>>
    /\ UNCHANGED backendVars

\* OrderSerializer(orders, many=True).data for the orders S and user u.
OrderListData(S, u) == [o \in S |-> OrderData(order[o], u)]

\* GET /orders/recent/: the cached list when recent_orders_<user> is set and
\* not empty, else the serialized queryset and cache.set.
Recent(u) ==
    /\ LET k == <<"recent_orders", u>>
       IN  IF k \in DOMAIN cache /\ DOMAIN cache[k] # {}
           THEN /\ last' = Response("recent", u, "o1", "", "", "OK", cache[k])
                /\ UNCHANGED cache
           ELSE /\ cache' = cache_set(cache, k,
                                      OrderListData(get_queryset(u), u))
                /\ last' = Response("recent", u, "o1", "", "", "OK",
                                    OrderListData(get_queryset(u), u))
    /\ UNCHANGED <<order, items, status_history, assignment_history,
                   analytics, req, now, nreq>>
    /\ UNCHANGED backendVars

\* _get_recent_vendor_orders: the vendor's orders through a serializer that
\* has no request, so available_status_actions is empty.
_get_recent_vendor_orders(v) ==
    LET S == {o \in OrderIds : order[o].exists /\ order[o].vendor = v}
    IN  [o \in S |->
            [OrderData(order[o], NoUser) EXCEPT !.available_status_actions = {}]]

\* GET /orders/vendor_dashboard/: request.user.vendor_employee is evaluated
\* first and raises for a user who is no employee; else the cached body when
\* vendor_dashboard_<vendor> is set, else the analytics row, the recent
\* orders and cache.set.
VendorDashboard(u) ==
    /\ LET v == IF HasVendor(u) THEN UserVendor(u) ELSE EmployeeVendor(u)
           k == <<"vendor_dashboard", v>>
           body == [analytics |-> analytics[v],
                    recent_orders |-> _get_recent_vendor_orders(v)]
       IN  IF ~HasVendorEmployee(u)
           THEN /\ last' = Response("vendor_dashboard", u, "o1", "", "",
                                    "ServerError", NoData)
                /\ UNCHANGED cache
           ELSE IF k \in DOMAIN cache
           THEN /\ last' = Response("vendor_dashboard", u, "o1", "", "",
                                    "OK", cache[k])
                /\ UNCHANGED cache
           ELSE /\ cache' = cache_set(cache, k, body)
                /\ last' = Response("vendor_dashboard", u, "o1", "", "",
                                    "OK", body)
    /\ UNCHANGED <<order, items, status_history, assignment_history,
                   analytics, req, now, nreq>>
    /\ UNCHANGED backendVars

----------------------------------------------------------------------------
(* The transactions of update_status and assign, statement by statement *)

\* Another open transaction has updated the row of order o and holds its
\* lock until it commits.
OrderRowLocked(r, o) ==
    \E q \in ReqIds :
        /\ q # r
        /\ req[q].oid = o
        /\ req[q].pc \in {"update_status_commit", "assign_commit"}

\* update_status inside transaction.atomic: the history INSERT, order.save
\* with _update_caches, and the two cache.delete_pattern calls.  The rows
\* written stay invisible to other requests until the commit; the INSERT
\* fails when the order row has been deleted.
UpdateStatusWrite(r) ==
    /\ req[r].pc = "update_status"
    /\ ~OrderRowLocked(r, req[r].oid)
    /\ LET f == req[r]
           o == f.oid
           obj == [f.obj EXCEPT !.status = f.arg, !.status_changed_at = now,
                                !.last_updated_by = f.user]
           saved == save(obj, f.obj.status, ItemsOf(o))
       IN  IF order[o].exists
           THEN /\ req' = [req EXCEPT ![r].pc = "update_status_commit",
                                      ![r].pending = saved,
                                      ![r].at = now]
                /\ cache' = delete_pattern(_update_caches(cache, o, saved), o)
                /\ UNCHANGED last
           ELSE /\ req' = [req EXCEPT ![r] = Idle]
                /\ last' = Response("update_status", f.user, o, f.arg,
                                    f.obj.status, "ServerError", NoData)
                /\ UNCHANGED cache
    /\ UNCHANGED <<order, items, status_history, assignment_history,
                   analytics, now, nreq>>
    /\ UNCHANGED backendVars

\* update_status: the commit at the end of the atomic block, and the
\* response.
UpdateStatusEnd(r) ==
    /\ req[r].pc = "update_status_commit"
    /\ LET f == req[r]
           o == f.oid
           row == [OrderStatusHistory_create(
                       [id |-> o, status |-> f.obj.status], f.arg, f.user)
                   EXCEPT !.created_at = f.at]
       IN  /\ status_history' = Append(status_history, row)
           /\ order' = [order EXCEPT ![o] = f.pending]
           /\ last' = Response("update_status", f.user, o, f.arg,
                                f.obj.status, "OK", OrderData(f.pending, f.user))
    /\ req' = [req EXCEPT ![r] = Idle]
    /\ now' = now + 1
    /\ UNCHANGED <<items, assignment_history, analytics, cache, nreq>>
    /\ UNCHANGED backendVars

\* assign inside transaction.atomic, after the UPDATE that ends the current
\* assignment: the new row, order.save with _update_caches, and the two
\* cache.delete_pattern calls.
AssignWrite(r) ==
    /\ req[r].pc = "assign_create"
    /\ ~OrderRowLocked(r, req[r].oid)
    /\ LET f == req[r]
           o == f.oid
           obj == [f.obj EXCEPT !.assigned_to = f.arg,
                                !.last_updated_by = f.user]
           saved == save(obj, f.obj.status, ItemsOf(o))
       IN  IF order[o].exists
           THEN /\ req' = [req EXCEPT ![r].pc = "assign_commit",
                                      ![r].pending = saved]
                /\ cache' = delete_pattern(_update_caches(cache, o, saved), o)
                /\ UNCHANGED last
           ELSE /\ req' = [req EXCEPT ![r] = Idle]
                /\ last' = Response("assign", f.user, o, f.arg, f.obj.status,
                                    "ServerError", NoData)
                /\ UNCHANGED cache
    /\ UNCHANGED <<order, items, status_history, assignment_history,
                   analytics, now, nreq>>
    /\ UNCHANGED backendVars

\* assign: the commit at the end of the atomic block, and the response.
AssignEnd(r) ==
    /\ req[r].pc = "assign_commit"
    /\ LET f == req[r]
           o == f.oid
           ended == {IF a.id \in f.locked
                     THEN [a EXCEPT !.active = FALSE, !.ended_at = f.at]
                     ELSE a : a \in assignment_history}
           row == [id |-> MaxOf({a.id : a \in assignment_history}) + 1,
                   order |-> o, assigned_to |-> f.arg, assigned_by |-> f.user,
                   created_at |-> f.at, ended_at |-> NoTime, active |-> TRUE]
       IN  /\ assignment_history' = ended \cup {row}
           /\ order' = [order EXCEPT ![o] = f.pending]
           /\ last' = Response("assign", f.user, o, f.arg, f.obj.status,
                                "OK", OrderData(f.pending, f.user))
    /\ req' = [req EXCEPT ![r] = Idle]
    /\ now' = now + 1
    /\ UNCHANGED <<items, status_history, analytics, cache, nreq>>
    /\ UNCHANGED backendVars

----------------------------------------------------------------------------
(* The backend checkout: OrderCreateView.create, statement by statement    *)
(* inside its transaction.  The tables bk_product, bk_order and bk_item    *)
(* hold the committed rows; a transaction reads the committed rows and its *)
(* own writes, and an UPDATE waits for a row another transaction has       *)
(* written and not yet committed.                                          *)

\* The validated bodies of a checkout request: the item lists.
CheckoutInputs ==
    {<<[product_id |-> "b1", quantity |-> 2]>>,
     <<[product_id |-> "b1", quantity |-> 1], [product_id |-> "b2", quantity |-> 3]>>,
     <<[product_id |-> "b2", quantity |-> 1], [product_id |-> "b1", quantity |-> 1]>>,
     <<[product_id |-> "b2", quantity |-> 3]>>}

\* The committed tables as one record.
Tables == [product |-> bk_product, order |-> bk_order, item |-> bk_item]

\* COMMIT of the transaction of frame f on the tables T.
commit(T, f) ==
    [product |-> [p \in BackendProducts |->
                     IF p \in DOMAIN f.writes THEN f.writes[p]
                     ELSE T.product[p]],
     order |-> T.order \cup {f.order},
     item |-> T.item \cup f.new_items]

\* The tables after a request that leaves its writes behind when it fails.
rollback_keeping_writes(T, f) == commit(T, f)

\* ROLLBACK of the transaction of frame f, the exception leaving the
\* function under transaction.atomic: the tables are as before.
rollback(T, f) == T

\* A vendor's request names a product of the vendor's own profile.
buys_own_product(u, its) ==
    /\ User_role(u) = "vendor"
    /\ \E i \in 1..Len(its) :
          BackendProductVendor(its[i].product_id) = vendor_profile(u)

BackendResponse(op, u, oid, result, item, data) ==
    [op |-> op, user |-> u, oid |-> oid, result |-> result, item |-> item,
     data |-> data]

\* create up to the item loop: is_valid, the check of a vendor's own
\* products and Order.objects.create.
CheckoutBegin(c, u, its) ==
    /\ checkout[c].pc = "idle"
    /\ \A d \in CheckoutIds : d < c => checkout[d].pc # "idle"
    /\ IF buys_own_product(u, its)
       THEN /\ bk_last' = BackendResponse("create", u, 0, "ValidationError",
                                          0, {})
            /\ UNCHANGED <<checkout, ncheckout>>
       ELSE /\ checkout' = [checkout EXCEPT ![c] =
                   [NoCheckout EXCEPT
                       !.pc = "item", !.user = u, !.items = its, !.idx = 1,
                       !.order = [id |-> ncheckout + 1, buyer |-> u,
                                  shipping_address |-> "home"]]]
            /\ ncheckout' = ncheckout + 1
            /\ UNCHANGED bk_last
    /\ UNCHANGED <<bk_product, bk_order, bk_item>>
    /\ UNCHANGED orderVars

\* The loop at item idx: Product.objects.get and the stock check.  When the
\* stock is short the ValidationError rolls the transaction back.
CheckoutRead(c) ==
    /\ checkout[c].pc = "item"
    /\ checkout[c].idx <= Len(checkout[c].items)
    /\ LET f == checkout[c]
           d == f.items[f.idx]
           product == IF d.product_id \in DOMAIN f.writes
                      THEN f.writes[d.product_id]
                      ELSE bk_product[d.product_id]
           T == rollback(Tables, f)
       IN  IF product.stock < d.quantity
           THEN /\ bk_product' = T.product
                /\ bk_order' = T.order
                /\ bk_item' = T.item
                /\ checkout' = [checkout EXCEPT ![c] = NoCheckout]
                /\ bk_last' = BackendResponse("create", f.user, f.order.id,
                                              "ValidationError", f.idx, {})
           ELSE /\ checkout' = [checkout EXCEPT ![c].pc = "write",
                                                ![c].obj = product]
                /\ UNCHANGED <<bk_product, bk_order, bk_item, bk_last>>
    /\ UNCHANGED ncheckout
    /\ UNCHANGED orderVars

\* The loop at item idx: OrderItem.objects.create and product.save() with
\* the stock and the sales_count computed from the row read.
CheckoutWrite(c) ==
    /\ checkout[c].pc = "write"
    /\ LET f == checkout[c]
           d == f.items[f.idx]
           p == d.product_id
       IN  /\ \A e \in CheckoutIds \ {c} : p \notin DOMAIN checkout[e].writes
           /\ checkout' = [checkout EXCEPT
                 ![c].pc = "item",
                 ![c].idx = f.idx + 1,
                 ![c].new_items = f.new_items \cup
                     {[order |-> f.order.id, n |-> f.idx, product |-> p,
                       vendor |-> BackendProductVendor(p),
                       quantity |-> d.quantity]},
                 ![c].writes = cache_set(f.writes, p,
                     [stock |-> f.obj.stock - d.quantity,
                      sales_count |-> f.obj.sales_count + d.quantity])]
    /\ UNCHANGED <<bk_product, bk_order, bk_item, bk_last, ncheckout>>
    /\ UNCHANGED orderVars

\* After the loop: order.save(), the response and the commit.
CheckoutCommit(c) ==
    /\ checkout[c].pc = "item"
    /\ checkout[c].idx > Len(checkout[c].items)
    /\ LET f == checkout[c]
           T == commit(Tables, f)
       IN  /\ bk_product' = T.product
           /\ bk_order' = T.order
           /\ bk_item' = T.item
           /\ bk_last' = BackendResponse("create", f.user, f.order.id,
                                         "Created", 0, {f.order.id})
    /\ checkout' = [checkout EXCEPT ![c] = NoCheckout]
    /\ UNCHANGED ncheckout
    /\ UNCHANGED orderVars

\* OrderListView.get_queryset: the ids of the orders listed for user u.
BackendList_get_queryset(u) ==
    IF User_role(u) = "admin" THEN {o.id : o \in bk_order}
    ELSE IF User_role(u) = "vendor"
    THEN {o.id : o \in {x \in bk_order :
                          \E i \in bk_item :
                              i.order = x.id /\ i.vendor = vendor_profile(u)}}
    ELSE {o.id : o \in {x \in bk_order : x.buyer = u}}

\* OrderListView: GET of the list.
OrderListView(u) ==
    /\ bk_last' = BackendResponse("list", u, 0, "OK", 0,
                                  BackendList_get_queryset(u))
    /\ UNCHANGED <<bk_product, bk_order, bk_item, checkout, ncheckout>>
    /\ UNCHANGED orderVars

\* get_object of OrderDetailView for user u and id oid, on its queryset
\* Order.objects.all().
BackendDetail_get_object(u, oid) ==
    IF oid \in {o.id : o \in bk_order} THEN "OK" ELSE "NotFound"

\* OrderDetailView: GET of order oid.
OrderDetailRetrieve(u, oid) ==
    /\ bk_last' = BackendResponse("retrieve", u, oid,
                                  BackendDetail_get_object(u, oid), 0,
                                  IF BackendDetail_get_object(u, oid) = "OK"
                                  THEN {oid} ELSE {})
    /\ UNCHANGED <<bk_product, bk_order, bk_item, checkout, ncheckout>>
    /\ UNCHANGED orderVars

\* OrderDetailView: PATCH of order oid with a shipping_address, a writable
\* field of OrderSerializer.
OrderDetailUpdate(u, oid, address) ==
    /\ LET result == BackendDetail_get_object(u, oid)
       IN  /\ bk_order' =
                 IF result = "OK"
                 THEN {IF o.id = oid
                       THEN [o EXCEPT !.shipping_address = address] ELSE o
                          : o \in bk_order}
                 ELSE bk_order
           /\ bk_last' = BackendResponse("update", u, oid, result, 0,
                                         IF result = "OK" THEN {oid} ELSE {})
    /\ UNCHANGED <<bk_product, bk_item, checkout, ncheckout>>
    /\ UNCHANGED orderVars

----------------------------------------------------------------------------
(* Specification *)

\* The item of the order the totals specification starts from.
FirstItem == NewItem(1, "o1", [product |-> "p1", price |-> 1000, quantity |-> 2])

\* One order of vendor V1, saved by the administrator in status s at time 1
\* with the rows its of its items, amounts at their defaults; the other slot
\* of the table is free and the cache entries have expired.
InitOrder(s, its) ==
    /\ order = [o \in OrderIds |->
                   IF o = "o1"
                   THEN _calculate_totals(
                            [NewOrder("cust1", "V1", s) EXCEPT
                                 !.status_changed_at = 1,
                                 !.last_updated_by = "admin"], its)
                   ELSE NoOrder]
    /\ items = its
    /\ status_history = <<>>
    /\ assignment_history = {}
    /\ analytics = [v \in Vendors |-> NoAnalytics]
    /\ cache = [k \in {} |-> NoOrder]
    /\ req = [r \in ReqIds |-> Idle]
    /\ last = NoResponse
    /\ now = 2
    /\ nreq = 0
    /\ InitBackend

InitWith(s) == InitOrder(s, {})

\* Status updates of the order by every user, from every status.
InitStatus == \E s \in Status : InitWith(s)

NextStatus ==
    \/ /\ nreq < MaxStatusRequests
       /\ \E r \in ReqIds, u \in UserIds, s \in StatusInputs :
             UpdateStatusBegin(r, u, "o1", s)
    \/ \E r \in ReqIds : UpdateStatusCommit(r)

SpecStatus == InitStatus /\ [][NextStatus]_vars

\* Assignments and status updates of one order, racing.
InitAssign == InitWith(PROCESSING)

NextAssign ==
    \/ /\ nreq < MaxRequests
       /\ \E r \in ReqIds, u \in UserIds, a \in {"mgr1", "staff1", "emp2", "", "ghost"} :
             AssignBegin(r, u, "o1", a)
    \/ \E r \in ReqIds : AssignEndCurrent(r)
    \/ \E r \in ReqIds : AssignCommit(r)
    \/ /\ nreq < MaxRequests
       /\ \E r \in ReqIds, u \in {"admin", "own1"},
             s \in {READY_FOR_SHIPMENT, DELIVERED, CANCELLED} :
             UpdateStatusBegin(r, u, "o1", s)
    \/ \E r \in ReqIds : UpdateStatusCommit(r)

SpecAssign == InitAssign /\ [][NextAssign]_vars

\* Orders with items: create, update, item writes, and the saves of status
\* updates and assignments.
InitTotals ==
    \E s \in {DRAFT, PENDING_PAYMENT, PAYMENT_RECEIVED} : InitOrder(s, {FirstItem})

TotalsUpdates ==
    {x \in UpdateInputs :
        \/ x.fields = {"status"} /\ x.status \in {DRAFT, PROCESSING}
        \/ x.fields # {"status"} /\ x.shipping_cost + x.discount_amount \in {100, 300}}

TotalsItems == {d \in ItemInputs : d.price = 550}

NextTotals ==
    \/ /\ nreq < MaxTotalsRequests
       /\ \E u \in {"cust1", "own1"}, c \in ShippingInputs,
             d \in DiscountInputs, n \in NestedInputs :
             OrderCreate(u, "V1", c, d, n)
    \/ /\ nreq < MaxTotalsRequests
       /\ \E u \in {"admin", "own1", "cust1"}, o \in OrderIds,
             data \in TotalsUpdates : OrderUpdate(u, o, data)
    \/ /\ nreq < MaxTotalsRequests
       /\ \E u \in {"cust1", "own1"}, o \in OrderIds, d \in TotalsItems :
             OrderItemCreate(u, o, d)
    \/ /\ nreq < MaxTotalsRequests
       /\ \E u \in {"admin", "own1"}, id \in 1..MaxItems, d \in TotalsItems :
             OrderItemUpdate(u, id, d)
    \/ /\ nreq < MaxTotalsRequests
       /\ \E u \in {"admin", "own1"}, id \in 1..MaxItems :
             OrderItemDestroy(u, id)
    \/ /\ nreq < MaxTotalsRequests
       /\ \E r \in ReqIds, o \in OrderIds,
             s \in {DRAFT, PENDING_PAYMENT, PAYMENT_RECEIVED} :
             UpdateStatusBegin(r, "admin", o, s)
    \/ /\ nreq < MaxTotalsRequests
       /\ \E r \in ReqIds, o \in OrderIds : AssignBegin(r, "own1", o, "mgr1")
    \/ \E r \in ReqIds : UpdateStatusCommit(r)
    \/ \E r \in ReqIds : AssignEndCurrent(r)
    \/ \E r \in ReqIds : AssignCommit(r)

SpecTotals == InitTotals /\ [][NextTotals]_vars

\* Analytics refreshes and dashboard reads between creates and status
\* updates.
InitAnalytics == InitWith(PENDING_PAYMENT)

NextAnalytics ==
    \/ \E v \in Vendors : UpdateAnalytics(v)
    \/ /\ nreq < MaxRequests
       /\ \E v \in Vendors, n \in NestedInputs : OrderCreate("cust1", v, 0, 0, n)
    \/ /\ nreq < MaxRequests
       /\ \E r \in ReqIds, o \in OrderIds,
             s \in {SHIPPED, DELIVERED, REFUNDED, CANCELLED} :
             UpdateStatusBegin(r, "admin", o, s)
    \/ \E r \in ReqIds : UpdateStatusCommit(r)
    \/ VendorDashboard("cs1")

SpecAnalytics == InitAnalytics /\ [][NextAnalytics]_vars

\* Cached reads between note updates, status updates and assignments of one
\* order, the transactions taken statement by statement.
InitRead == InitWith(PROCESSING)

ReadUpdates ==
    {x \in UpdateInputs :
        x.fields = {"vendor_notes", "admin_notes"}
            /\ x.vendor_notes = x.admin_notes}

NextRead ==
    \/ \E u \in {"cust1", "cs1"} : Retrieve(u, "o1")
    \/ Summary("own1")
    \/ Recent("cust1")
    \/ \E u \in {"cs1", "own1"} : VendorDashboard(u)
    \/ /\ nreq < MaxRequests
       /\ ~OrderRowLocked(0, "o1")
       /\ \E data \in ReadUpdates : OrderUpdate("own1", "o1", data)
    \/ /\ nreq < MaxRequests
       /\ \E r \in ReqIds, s \in {READY_FOR_SHIPMENT, CANCELLED} :
             UpdateStatusBegin(r, "own1", "o1", s)
    \/ \E r \in ReqIds : UpdateStatusWrite(r)
    \/ \E r \in ReqIds : UpdateStatusEnd(r)
    \/ /\ nreq < MaxRequests
       /\ \E r \in ReqIds : AssignBegin(r, "own1", "o1", "mgr1")
    \/ \E r \in ReqIds : AssignEndCurrent(r)
    \/ \E r \in ReqIds : AssignWrite(r)
    \/ \E r \in ReqIds : AssignEnd(r)

SpecRead == InitRead /\ [][NextRead]_vars

\* Orders created and updated with addresses and customers.
InitAddress == InitWith(PENDING_PAYMENT)

AddressUpdates ==
    {x \in UpdateInputs :
        x.fields \cap {"customer", "shipping_address", "billing_address"} # {}}

NextAddress ==
    \/ /\ nreq < MaxRequests
       /\ \E c \in Customers, a \in Addresses \cup {NoAddress},
             b \in Addresses \cup {NoAddress} :
             OrderCreateWith("cust1", "V1", 0, 0, <<>>, c, a, b)
    \/ /\ nreq < MaxRequests
       /\ \E u \in {"admin", "own1", "cust1"}, o \in OrderIds,
             data \in AddressUpdates : OrderUpdate(u, o, data)

SpecAddress == InitAddress /\ [][NextAddress]_vars

\* Two vendors with one order and one item each, and the requests of their
\* owners and employees on both orders.
InitTenant ==
    /\ order = [o \in OrderIds |->
                   [NewOrder("cust1", IF o = "o1" THEN "V1" ELSE "V2",
                             PROCESSING) EXCEPT
                        !.status_changed_at = 1,
                        !.last_updated_by = "admin"]]
    /\ items = {item_save(NewItem(1, "o1", [product |-> "p1", price |-> 1000,
                                            quantity |-> 2])),
                item_save(NewItem(2, "o2", [product |-> "p2", price |-> 550,
                                            quantity |-> 1]))}
    /\ status_history = <<>>
    /\ assignment_history = {}
    /\ analytics = [v \in Vendors |-> NoAnalytics]
    /\ cache = [k \in {} |-> NoOrder]
    /\ req = [r \in ReqIds |-> Idle]
    /\ last = NoResponse
    /\ now = 2
    /\ nreq = 0
    /\ InitBackend

TenantActors == {"own1", "own2", "emp2"}

TenantUpdates ==
    {x \in UpdateInputs :
        x.fields = {"vendor_notes", "admin_notes"}
            /\ x.vendor_notes = "internal" /\ x.admin_notes = ""}

TenantItem == [product |-> "p1", price |-> 550, quantity |-> 1]

NextTenant ==
    \/ /\ nreq < MaxRequests
       /\ \E u \in TenantActors, o \in OrderIds, data \in TenantUpdates :
             OrderUpdate(u, o, data)
    \/ /\ nreq < MaxRequests
       /\ \E u \in TenantActors, o \in OrderIds : OrderDestroy(u, o)
    \/ /\ nreq < MaxRequests
       /\ \E r \in ReqIds, u \in TenantActors, o \in OrderIds :
             UpdateStatusBegin(r, u, o, READY_FOR_SHIPMENT)
    \/ \E r \in ReqIds : UpdateStatusCommit(r)
    \/ /\ nreq < MaxRequests
       /\ \E r \in ReqIds, u \in TenantActors, o \in OrderIds :
             AssignBegin(r, u, o, "emp2")
    \/ \E r \in ReqIds : AssignEndCurrent(r)
    \/ \E r \in ReqIds : AssignCommit(r)
    \/ /\ nreq < MaxRequests
       /\ \E u \in TenantActors, o \in OrderIds :
             OrderItemCreate(u, o, TenantItem)
    \/ /\ nreq < MaxRequests
       /\ \E u \in TenantActors, id \in 1..MaxItems :
             OrderItemUpdate(u, id, TenantItem)
    \/ /\ nreq < MaxRequests
       /\ \E u \in TenantActors, id \in 1..MaxItems :
             OrderItemDestroy(u, id)

SpecTenant == InitTenant /\ [][NextTenant]_vars

\* The requests of a user with two profiles, next to those of the owner of
\* vendor V1: o1 is an order of V1 bought by cust1, o2 an order of V2 bought
\* by dual1.
InitRole ==
    /\ order = [o \in OrderIds |->
                   [NewOrder(IF o = "o1" THEN "cust1" ELSE "dual1",
                             IF o = "o1" THEN "V1" ELSE "V2",
                             PROCESSING) EXCEPT
                        !.status_changed_at = 1,
                        !.last_updated_by = "admin"]]
    /\ items = {item_save(NewItem(1, "o1", [product |-> "p1", price |-> 1000,
                                            quantity |-> 2])),
                item_save(NewItem(2, "o2", [product |-> "p2", price |-> 550,
                                            quantity |-> 1]))}
    /\ status_history = <<>>
    /\ assignment_history = {}
    /\ analytics = [v \in Vendors |-> NoAnalytics]
    /\ cache = [k \in {} |-> NoOrder]
    /\ req = [r \in ReqIds |-> Idle]
    /\ last = NoResponse
    /\ now = 2
    /\ nreq = 0
    /\ InitBackend

NextRole ==
    \/ \E o \in OrderIds : Retrieve("dual1", o)
    \/ Recent("dual1")
    \/ /\ nreq < MaxRequests
       /\ \E r \in ReqIds, u \in {"dual1", "own1"}, o \in OrderIds :
             UpdateStatusBegin(r, u, o, READY_FOR_SHIPMENT)
    \/ \E r \in ReqIds : UpdateStatusCommit(r)
    \/ /\ nreq < MaxRequests
       /\ \E r \in ReqIds, u \in {"dual1", "own1"}, o \in OrderIds :
             AssignBegin(r, u, o, "mgr1")
    \/ \E r \in ReqIds : AssignEndCurrent(r)
    \/ \E r \in ReqIds : AssignCommit(r)
    \/ /\ nreq < MaxRequests
       /\ \E o \in OrderIds : OrderItemCreate("dual1", o, TenantItem)

SpecRole == InitRole /\ [][NextRole]_vars

\* Assignments of one order next to updates that send assigned_to_id.
InitAssignee == InitWith(PROCESSING)

AssigneeUpdates == {x \in UpdateInputs : x.fields = {"assigned_to"}}

NextAssignee ==
    \/ /\ nreq < MaxRequests
       /\ \E r \in ReqIds, a \in {"mgr1", "staff1"} :
             AssignBegin(r, "own1", "o1", a)
    \/ \E r \in ReqIds : AssignEndCurrent(r)
    \/ \E r \in ReqIds : AssignCommit(r)
    \/ /\ nreq < MaxRequests
       /\ \E u \in {"own1", "admin"}, data \in AssigneeUpdates :
             OrderUpdate(u, "o1", data)

SpecAssignee == InitAssignee /\ [][NextAssignee]_vars

\* Backend checkouts of a buyer and of a vendor, racing.
InitCheckout == InitWith(PROCESSING)

NextCheckout ==
    \/ /\ ncheckout < MaxCheckouts
       /\ \E c \in CheckoutIds, u \in {"buyer1", "vendor1"},
             its \in CheckoutInputs : CheckoutBegin(c, u, its)
    \/ \E c \in CheckoutIds : CheckoutRead(c)
    \/ \E c \in CheckoutIds : CheckoutWrite(c)
    \/ \E c \in CheckoutIds : CheckoutCommit(c)

SpecCheckout == InitCheckout /\ [][NextCheckout]_vars

\* Backend orders of two buyers, listed, read and updated by id.
NextDetail ==
    \/ /\ ncheckout < MaxCheckouts
       /\ \E c \in CheckoutIds, u \in {"buyer1", "buyer2"},
             its \in {x \in CheckoutInputs : Len(x) = 2 /\ x[2].quantity = 1} :
             CheckoutBegin(c, u, its)
    \/ \E c \in CheckoutIds : CheckoutRead(c)
    \/ \E c \in CheckoutIds : CheckoutWrite(c)
    \/ \E c \in CheckoutIds : CheckoutCommit(c)
    \/ \E u \in {"buyer1", "buyer2", "vendor1"} : OrderListView(u)
    \/ \E u \in {"buyer1", "buyer2", "vendor1"}, oid \in 1..MaxCheckouts :
          OrderDetailRetrieve(u, oid)
    \/ \E u \in {"buyer1", "buyer2", "vendor1"}, oid \in 1..MaxCheckouts :
          OrderDetailUpdate(u, oid, "elsewhere")

SpecDetail == InitCheckout /\ [][NextDetail]_vars

----------------------------------------------------------------------------
(* Properties *)

PrePayment == {DRAFT, PENDING_PAYMENT}

Terminal == {CANCELLED, REFUNDED, FAILED}

\* The users and the orders of the requests a step can belong to: those of
\* the response and of the handler frames after the step.
StepUsers == {last'.user} \cup {req'[r].user : r \in ReqIds}

StepOrders == {last'.oid} \cup {req'[r].oid : r \in ReqIds}

\* A step of update_status(u, o, s) up to the transaction: the request either
\* is answered at once or goes on to write in a handler frame.
UpdateStatusStep(u, o, s) ==
    /\ \/ /\ last' # last
          /\ last'.op = "update_status"
          /\ last'.user = u
          /\ last'.oid = o
       \/ \E r \in ReqIds :
             /\ req[r].pc = "idle"
             /\ req'[r].pc = "update_status"
             /\ req'[r].user = u
             /\ req'[r].oid = o
             /\ req'[r].arg = s
    /\ \E r \in ReqIds : UpdateStatusBegin(r, u, o, s)

\* C1: at every moment an order has at most one assignment-history row with
\* active = TRUE, also when two assign requests for the order run
\* concurrently.
C1_AtMostOneActive ==
    \A o \in OrderIds : Cardinality(ActiveRows(o)) <= 1

\* C2: a status update whose (actor role, current status, target status) is
\* not an edge of the transition table fails with InvalidTransitionError and
\* leaves the order's status and its status history unchanged.
C2_InvalidTransition ==
    [][\A u \in StepUsers, o \in StepOrders :
          get_object("update_status", u, o) = "OK"
          => \A s \in Status \ get_status_actions(order[o], u) :
                UpdateStatusStep(u, o, s)
                => /\ last'.result = "InvalidTransitionError"
                   /\ req' = req
                   /\ order' = order
                   /\ status_history' = status_history]_vars

\* C3: an assign by an actor who may assign the order and is not an
\* administrator, to an employee of another vendor than the order's, fails
\* with CrossVendorError and leaves the order's assignee and its assignment
\* history unchanged.
C3_CrossVendor ==
    [][\A u \in StepUsers, o \in StepOrders, a \in UserIds :
          (/\ ~is_superuser(u)
           /\ get_object("assign", u, o) = "OK"
           /\ may_assign(u, order[o])
           /\ HasVendorEmployee(a)
           /\ EmployeeVendor(a) # order[o].vendor
           /\ \E r \in ReqIds : AssignBegin(r, u, o, a))
          => /\ last'.result = "CrossVendorError"
             /\ req' = req
             /\ order' = order
             /\ assignment_history' = assignment_history]_vars

\* C4: an order that a save has written in status Draft or PendingPayment
\* has total = subtotal + tax_amount + shipping_cost - discount_amount.
C4_TotalIsSum ==
    \A o \in OrderIds :
        (order[o].exists /\ order[o].status \in PrePayment)
        => order[o].total = order[o].subtotal + order[o].tax_amount
                              + order[o].shipping_cost - order[o].discount_amount

\* C5: while an order's status is past PendingPayment, no write of an order
\* item and no save of the order changes the order's subtotal or total.
C5_FrozenTotals ==
    [][\A o \in OrderIds :
          (/\ order[o].exists
           /\ order[o].status \notin PrePayment
           /\ order'[o].status \notin PrePayment)
          => /\ order'[o].subtotal = order[o].subtotal
             /\ order'[o].total = order[o].total]_vars

C8_Expected(v) ==
    LET os == {o \in OrderIds : /\ order[o].exists
                                /\ order[o].vendor = v
                                /\ order[o].status \in {DELIVERED, REFUNDED, CANCELLED}}
        n == Cardinality(os)
        revenue == SumOver(os, [o \in os |-> order[o].total])
        its == {i \in items : i.order \in os}
    IN  [total_orders |-> n,
         total_revenue |-> revenue,
         average_order_value |-> IF n = 0 THEN 0 ELSE revenue \div n,
         total_items_sold |-> SumOver(its, [i \in its |-> i.quantity])]

\* C8: after update_analytics the vendor's row holds the count, the sum of
\* totals, the average and the number of items of the vendor's Delivered,
\* Refunded and Cancelled orders, and zeros when there is none.
C8_AnalyticsStored ==
    [][\A v \in Vendors :
          (last'.op = "update_analytics" /\ last'.vendor = v /\ UpdateAnalytics(v))
          => analytics'[v] = C8_Expected(v)]_vars

\* The transition table of the roles other than the administrator.
C9_Table(role, s) ==
    IF role = "owner" THEN
        CASE s = PAYMENT_RECEIVED -> {PROCESSING, ON_HOLD}
          [] s = PROCESSING -> {READY_FOR_SHIPMENT, ON_HOLD}
          [] s = READY_FOR_SHIPMENT -> {SHIPPED}
          [] s = SHIPPED -> {OUT_FOR_DELIVERY}
          [] s = OUT_FOR_DELIVERY -> {DELIVERED}
          [] s = DELIVERED -> {RETURN_REQUESTED}
          [] s = RETURN_REQUESTED -> {RETURN_APPROVED, CANCELLED}
          [] OTHER -> {}
    ELSE IF role = "manager" THEN
        CASE s = PAYMENT_RECEIVED -> {PROCESSING}
          [] s = PROCESSING -> {READY_FOR_SHIPMENT}
          [] s = READY_FOR_SHIPMENT -> {SHIPPED}
          [] OTHER -> {}
    ELSE {}

\* The row of the table that applies to user u on an order of vendor v.
C9_Role(u, v) ==
    IF HasVendor(u) /\ UserVendor(u) = v THEN "owner"
    ELSE IF HasVendorEmployee(u) /\ EmployeeVendor(u) = v
            /\ EmployeeRole(u) \in {MANAGER, CUSTOMER_SERVICE} THEN "manager"
    ELSE "other"

C9_Actors == {u \in UserIds : HasVendor(u) \/ HasVendorEmployee(u)}

C10_TerminalStays ==
    [][\A o \in OrderIds :
          /\ order[o].status \in Terminal => order'[o].status = order[o].status
          /\ order[o].status = DELIVERED
               => order'[o].status \in {DELIVERED, RETURN_REQUESTED}]_vars

\* The actors the specification lets assign an order: an administrator, the
\* owner of the order's vendor, an employee of that vendor who holds
\* can_assign_orders.
C11_Allowed(u, ord) ==
    \/ is_superuser(u)
    \/ (HasVendor(u) /\ UserVendor(u) = ord.vendor)
    \/ /\ HasVendorEmployee(u)
       /\ EmployeeVendor(u) = ord.vendor
       /\ EmployeeRole(u) = MANAGER

\* A step that answers an assign request of u on o.
C11_Answered(u, o) ==
    /\ last' # last
    /\ last'.op = "assign"
    /\ last'.user = u
    /\ last'.oid = o

\* A step in which an assign request of u on o passes the checks and goes on
\* to write.
C11_Accepted(u, o) ==
    \E r \in ReqIds :
        /\ req[r].pc = "idle"
        /\ req'[r].pc = "assign"
        /\ req'[r].user = u
        /\ req'[r].oid = o

C15_ItemTotal ==
    \A i \in items :
        i.total = (i.price * i.quantity) + i.tax_amount - i.discount_amount

\* C16: creating an order with an item whose product belongs to another
\* vendor than the order's fails with a validation error and stores neither
\* the order nor an item; so no stored item references a product of a vendor
\* other than its order's.
C16_ItemVendor ==
    /\ [](\A i \in items :
             order[i.order].exists
                 => ProductVendor(i.product) = order[i.order].vendor)
    /\ [][\A v \in Vendors : \A n \in NestedInputs :
             (/\ \E k \in DOMAIN n : ProductVendor(n[k].product) # v
              /\ last' # last
              /\ last'.op = "create"
              /\ OrderCreate(last'.user, v, 0, 0, n))
             => /\ last'.result = "ValidationError"
                /\ order' = order
                /\ items' = items]_vars

\* C17: two status updates of one order that were checked against the same
\* status never both commit: a status update commits only while the order
\* still has the status the handler checked, so every history row of an
\* order starts from the status the row before it ended in.
C17_NoLostUpdate ==
    /\ [](\A o \in OrderIds : \A k \in 2..Len(HistoryOf(o)) :
             HistoryOf(o)[k].old_status = HistoryOf(o)[k - 1].new_status)
    /\ [][\A r \in ReqIds :
             (/\ req[r].pc = "update_status"
              /\ req'[r].pc = "idle"
              /\ last'.result = "OK")
             => order[req[r].oid].status = req[r].obj.status]_vars

\* C20: after an item of an order in Draft or PendingPayment is added,
\* updated or removed, the order's stored subtotal is the sum of
\* price * quantity over its items and its total is
\* subtotal + tax + shipping - discount.
C20_TotalsFollowItems ==
    [][\A o \in StepOrders :
          (/\ last' # last
           /\ last'.op \in {"item_create", "item_update", "item_destroy"}
           /\ last'.oid = o
           /\ last'.result = "OK"
           /\ order[o].status \in PrePayment)
          => LET its == {i \in items' : i.order = o}
             IN  /\ order'[o].subtotal
                      = SumOver(its, [i \in its |-> i.price * i.quantity])
                 /\ order'[o].total
                      = order'[o].subtotal + order'[o].tax_amount
                          + order'[o].shipping_cost
                          - order'[o].discount_amount]_vars

\* The financial fields of an order and the values the comparison gives them.
C13_Financial ==
    [subtotal : {0, 300}, tax_amount : {0, 300}, shipping_cost : {0, 300},
     discount_amount : {0, 300}, total : {0, 300}]

\* C13: the body GET /orders/<id>/ computes is role-filtered: for a customer
\* it is the same whatever the order's vendor_notes and admin_notes are, and
\* for a vendor employee without can_view_financials it is the same whatever
\* the order's subtotal, tax, shipping, discount and total are.
C13_RoleFiltered ==
    [][(/\ last' # last
        /\ last'.op = "retrieve"
        /\ last'.result = "OK"
        /\ <<"order", last'.oid, last'.user>> \notin DOMAIN cache)
       => LET u == last'.user
              ord == order[last'.oid]
          IN  /\ HasCustomerProfile(u)
                   => \A n \in NoteInputs : \A m \in NoteInputs :
                         last'.data
                           = OrderData([ord EXCEPT !.vendor_notes = n,
                                                   !.admin_notes = m], u)
              /\ (HasVendorEmployee(u) /\ ~can_view_financials(u))
                   => \A a \in C13_Financial :
                         last'.data
                           = OrderData([ord EXCEPT
                                            !.subtotal = a.subtotal,
                                            !.tax_amount = a.tax_amount,
                                            !.shipping_cost = a.shipping_cost,
                                            !.discount_amount = a.discount_amount,
                                            !.total = a.total], u)]_vars

\* C18: in update_status and assign no cache key of the order is deleted
\* before the transaction that writes the order and its history row has
\* committed: a handler step taken before or inside the transaction removes
\* no key from the cache.
C18_InvalidateAfterCommit ==
    [][\A r \in ReqIds :
          (/\ req'[r] # req[r]
           /\ req[r].pc \in {"update_status", "assign", "assign_create"})
          => DOMAIN cache \subseteq DOMAIN cache']_vars

\* Cache key k holds content that depends on order o, ord being its row.
C19_DependsOn(k, o, ord) ==
    \/ k[1] = "order" /\ k[2] = o
    \/ k[1] \in {"vendor_orders", "vendor_dashboard"} /\ k[2] = ord.vendor
    \/ k[1] = "customer_orders" /\ k[2] = ord.customer
    \/ k[1] = "employee_orders" /\ k[2] = ord.assigned_to
    \/ k[1] \in {"order_summary", "recent_orders"}
          /\ _apply_role_filters(ord, k[2])

\* C19: when a status update or an assignment of an order has completed, the
\* cache holds no key whose content depends on the order: the keys the read
\* paths had filled are deleted and the write has put no value in the cache.
C19_NoStaleCache ==
    [][\A r \in ReqIds :
          (/\ req[r].pc \in {"update_status_commit", "assign_commit"}
           /\ req'[r].pc = "idle")
          => \A k \in DOMAIN cache' :
                ~C19_DependsOn(k, req[r].oid, order'[req[r].oid])]_vars

\* C14: in every state reached by order creates and updates, the shipping
\* address and the billing address of an order, each when set, belong to
\* the order's customer.
C14_AddressesOfCustomer ==
    \A o \in OrderIds :
        order[o].exists
            => /\ order[o].shipping_address # NoAddress
                    => AddressUser(order[o].shipping_address) = order[o].customer
               /\ order[o].billing_address # NoAddress
                    => AddressUser(order[o].billing_address) = order[o].customer

\* Order row ord belongs to another vendor than the one u owns or works for.
C12_Foreign(u, ord) ==
    /\ ord.exists
    /\ \/ HasVendor(u) /\ UserVendor(u) # ord.vendor
       \/ HasVendorEmployee(u) /\ EmployeeVendor(u) # ord.vendor

\* The step belongs to a request of u: it answers one, or moves a handler
\* frame of one.
C12_StepBy(u) ==
    \/ last' # last /\ last'.user = u
    \/ \E r \in ReqIds :
          /\ req'[r] # req[r]
          /\ req[r].user = u \/ req'[r].user = u

C21_Editable(u, status) ==
    \/ status \in PrePayment
    \/ /\ status = PROCESSING
       /\ HasVendorEmployee(u)
       /\ can_edit_order_items(u)

\* C21: an add, update or remove of an order item is accepted only when the
\* order is in Draft or PendingPayment, or in Processing with an actor who is
\* vendor staff holding can_edit_order_items; in every other case the request
\* is rejected and the items are unchanged.
C21_ItemEditGuard ==
    [][(/\ last' # last
        /\ last'.op \in {"item_create", "item_update", "item_destroy"}
        /\ ~C21_Editable(last'.user, last'.from))
       => /\ last'.result # "OK"
          /\ items' = items]_vars

\* The orders of vendor v in a status the analytics count.
C22_Counted(v) ==
    {o \in OrderIds :
        /\ order[o].exists
        /\ order[o].vendor = v
        /\ order[o].status \in {DELIVERED, CANCELLED, REFUNDED}}

\* C22: the analytics are refreshed between an order's transition to
\* Delivered, Cancelled or Refunded and the next read of them: the analytics
\* a dashboard read returns count every order of the vendor that is in one
\* of these statuses.
C22_AnalyticsFresh ==
    [][(/\ last' # last
        /\ last'.op = "vendor_dashboard"
        /\ last'.result = "OK")
       => last'.data.analytics.total_orders
             = Cardinality(C22_Counted(EmployeeVendor(last'.user)))]_vars

\* C23: a user linked to a customer profile and to a vendor-employee profile
\* is resolved to the vendor role in every order operation: a retrieve, a
\* status update and an assignment of that user find an order exactly when
\* it is an order of the user's vendor, whoever bought it.
C23_VendorRoleFirst ==
    [][\A u \in DualUsers :
          /\ (/\ last' # last
              /\ last'.user = u
              /\ last'.op \in {"retrieve", "update_status", "assign"})
             => (last'.result = "NotFound"
                    <=> order[last'.oid].vendor # EmployeeVendor(u))
          /\ \A r \in ReqIds :
                (req[r].pc = "idle" /\ req'[r].pc # "idle" /\ req'[r].user = u)
                   => order[req'[r].oid].vendor = EmployeeVendor(u)]_vars

\* C24: in every state, the assignee of an order is the assignee of its one
\* active assignment row, and the order has no assignee exactly when it has
\* no active row.
C24_AssigneeIsActiveRow ==
    \A o \in OrderIds :
        order[o].exists
            => IF order[o].assigned_to = NoUser
               THEN ActiveRows(o) = {}
               ELSE /\ Cardinality(ActiveRows(o)) = 1
                    /\ \A a \in ActiveRows(o) :
                          a.assigned_to = order[o].assigned_to

\* C25: a status update that brings an assigned order to Delivered or
\* Cancelled ends its active assignment: after it the order has no active
\* assignment row and every row that was active has ended_at set.
C25_CompletionEndsAssignment ==
    [][(/\ last' # last
        /\ last'.op = "update_status"
        /\ last'.result = "OK"
        /\ last'.data.status \in {DELIVERED, CANCELLED}
        /\ ActiveRows(last'.oid) # {})
       => /\ {a \in assignment_history' : a.order = last'.oid /\ a.active} = {}
          /\ \A a \in ActiveRows(last'.oid) :
                \E b \in assignment_history' :
                    b.id = a.id /\ ~b.active /\ b.ended_at # NoTime]_vars

\* C26: the status history is append-only: every step of an order update, a
\* destroy, a status update or an assignment leaves the rows already written
\* as they are and at most adds rows after them.
C26_HistoryAppendOnly ==
    [][/\ Len(status_history') >= Len(status_history)
       /\ SubSeq(status_history', 1, Len(status_history)) = status_history]_vars

\* The history rows of order o are chained, and the most recent one, when
\* there is one, ends in the order's status.
C27_Chained(o) ==
    LET h == HistoryOf(o)
    IN  /\ \A i \in 2..Len(h) : h[i].old_status = h[i - 1].new_status
        /\ Len(h) > 0 => h[Len(h)].new_status = order[o].status

\* C27: the status history explains the current status: in every state the
\* rows of an order are chained and the most recent one has new_status equal
\* to the order's status, and every change of an order's status, through
\* update_status or through an order update, leaves such a most recent row.
C27_HistoryExplainsStatus ==
    /\ [](\A o \in OrderIds : order[o].exists => C27_Chained(o))
    /\ [][\A o \in OrderIds :
             (order[o].exists /\ order'[o].exists
                 /\ order'[o].status # order[o].status)
             => LET h == SelectSeq(status_history', LAMBDA x : x.order = o)
                IN  /\ Len(h) > 0
                    /\ h[Len(h)].new_status = order'[o].status]_vars

\* The quantity of product p in the order items created.
C28_Sold(p) ==
    LET its == {i \in bk_item : i.product = p}
    IN  SumOver(its, [i \in its |-> i.quantity])

\* C28: in every state reached by concurrent checkouts, the quantities of
\* the order items created for a product sum to at most the stock the
\* product started with, and no product's stock is negative.
C28_NoOverselling ==
    \A p \in BackendProducts :
        /\ C28_Sold(p) <= StartProduct.stock
        /\ bk_product[p].stock >= 0

\* C29: a checkout that is rejected, for a vendor's own product or for
\* short stock at any item of the list, is all-or-nothing: the step that
\* rejects it leaves the committed orders, order items and product rows as
\* they were, and the request keeps no uncommitted row.
C29_RejectedLeavesNothing ==
    [][\A c \in CheckoutIds :
          (/\ bk_last'.op = "create"
           /\ bk_last'.result = "ValidationError"
           /\ \/ checkout[c].pc # "idle" /\ checkout'[c].pc = "idle"
              \/ bk_last' # bk_last /\ checkout' = checkout)
          => /\ bk_order' = bk_order
             /\ bk_item' = bk_item
             /\ bk_product' = bk_product
             /\ bk_last'.oid \notin {o.id : o \in bk_order'}
             /\ \A i \in bk_item' : i.order # bk_last'.oid]_vars

\* A checkout was rejected at its second item, after the first item was
\* processed, and the tables hold nothing of it.
C29_Witness ==
    /\ bk_last.op = "create"
    /\ bk_last.result = "ValidationError"
    /\ bk_last.item = 2
    /\ bk_last.oid \notin {o.id : o \in bk_order}
    /\ \A p \in BackendProducts : bk_product[p].stock = StartProduct.stock - C28_Sold(p)

\* C30: a user who is no admin retrieves or updates by id exactly the orders
\* the list shows to that user: a detail request answers with the order if
\* and only if the order is in the user's list queryset.
C30_DetailEqualsList ==
    [][(/\ bk_last' # bk_last
        /\ bk_last'.op \in {"retrieve", "update"}
        /\ User_role(bk_last'.user) # "admin")
       => (bk_last'.result = "OK"
              <=> bk_last'.oid \in BackendList_get_queryset(bk_last'.user))]_vars

====
